---- MODULE Spec2Model ----
(***************************************************************************)
(* TherapyDataScraper (src/main.py): a single-threaded scrape of a fixed   *)
(* list of forums into a MongoDB collection, followed by a JSON export.    *)
(*                                                                         *)
(* Four specifications:                                                    *)
(*   Spec       one run of main(): setup, scrape_all_subreddits, export    *)
(*   SpecConc   two independent runs racing on the check-then-insert       *)
(*   SpecClean  clean_text applied once and twice to bounded texts         *)
(*   SpecCx     assess_complexity over bounded word counts                 *)
(*                                                                         *)
(* Texts handed to the validator are abstracted to the features the code   *)
(* reads (lengths, presence of a marker or of a question indicator);       *)
(* clean_text works on sequences of one-character strings.  qa_pairs is    *)
(* the length of the list of that name: the list is append-only and the    *)
(* code reads nothing but len(qa_pairs) (lines 219 and 239).               *)
(***************************************************************************)
EXTENDS Integers, Sequences, FiniteSets, TLC

VARIABLES
    pc,            \* position of the run in main()
    mongo,         \* outcome of the MongoClient connection: "unknown", "ok", "failed"
    reddit,        \* outcome of praw.Reddit construction
    uniqueIndex,   \* the collection enforces the unique index on question_id
    stages,        \* stages of main() entered so far, in order
    exported,      \* export_to_json wrote the file
    collection,    \* qa_collection: question_id -> number of stored documents
    total_pairs,   \* scrape_all_subreddits.total_pairs
    subIdx,        \* index of the forum being scraped, 1..NumSubreddits
    post_limit,    \* scrape_subreddit's post_limit argument
    category,      \* index into Categories
    yielded,       \* posts the current listing has yielded
    cat_sleeps,    \* time.sleep(2) calls made in the current listing
    sleeps5,       \* time.sleep(5) calls made by scrape_all_subreddits
    post,          \* the post being processed
    cidx,          \* comments of the post iterated so far
    comment,       \* the comment being processed
    qa_pairs,      \* len(qa_pairs) of the running scrape_subreddit
    lastSave,      \* outcome of the last save attempt
    forumError,    \* exception that ended the current scrape_subreddit
    cpc, cqid, csaw, cstatus, cleft,   \* SpecConc: the two runs
    text, once, twice, cstage,          \* SpecClean
    q_words, a_words, complexity        \* SpecCx

mainVars == <<pc, mongo, reddit, stages, exported, total_pairs, subIdx, post_limit,
              category, yielded, cat_sleeps, sleeps5, post, cidx, comment, qa_pairs,
              lastSave, forumError>>
storeVars == <<collection, uniqueIndex>>
concVars == <<cpc, cqid, csaw, cstatus, cleft>>
cleanVars == <<text, once, twice, cstage>>
cxVars == <<q_words, a_words, complexity>>
vars == <<mainVars, storeVars, concVars, cleanVars, cxVars>>

----------------------------------------------------------------------------
(* Bounds *)
NumSubreddits == 2
MaxComments == 3
MaxAttempts == 2
MaxTokens == 5
MaxQuestionWords == 51
MaxAnswerWords == 201

----------------------------------------------------------------------------
(* Inputs *)
Categories == <<"hot", "top", "new">>

\* main() passes target_count = 5000 for 8 forums; here the target is scaled with
\* the forum list so that every listing is limited to one post
TargetCount == 3 * NumSubreddits

\* the listings of every category and forum return the same post, the case in
\* which question ids repeat
PostIds == {1}
QIds == PostIds \X (1..MaxComments)

GoodPost(i) ==
    [id |-> i, stickied |-> FALSE, num_comments |-> 5, title_len |-> 20,
     title_question |-> TRUE, selftext_marked |-> FALSE]

\* an admissible post and the posts that differ from it in one field
Posts ==
    UNION {{GoodPost(i),
            [GoodPost(i) EXCEPT !.stickied = TRUE],
            [GoodPost(i) EXCEPT !.num_comments = 0],
            [GoodPost(i) EXCEPT !.title_len = 19],
            [GoodPost(i) EXCEPT !.title_question = FALSE],
            [GoodPost(i) EXCEPT !.selftext_marked = TRUE]} : i \in PostIds}

NoPost == [GoodPost(0) EXCEPT !.num_comments = 0]

GoodComment ==
    [has_body |-> TRUE, score |-> 4, body_len |-> 50, body_marked |-> FALSE]

\* an admissible comment and the comments that differ from it in one field
Comments ==
    {GoodComment,
     [GoodComment EXCEPT !.has_body = FALSE],
     [GoodComment EXCEPT !.score = 3],
     [GoodComment EXCEPT !.body_len = 49],
     [GoodComment EXCEPT !.body_marked = TRUE]}

NoComment == [GoodComment EXCEPT !.has_body = FALSE, !.score = 0, !.body_len = 0]

EmptyCollection == [q \in QIds |-> 0]

----------------------------------------------------------------------------
(* Pure helpers of TherapyDataScraper *)

\* is_valid_qa(title, selftext, comment_body), on the features it reads
is_valid_qa(title_len, title_question, selftext_marked, body_len, body_marked) ==
    IF title_len < 20 \/ body_len < 50 THEN FALSE
    ELSE IF selftext_marked THEN FALSE
    ELSE IF body_marked THEN FALSE
    ELSE title_question

\* line 196: if not post.stickied and post.num_comments > 0
PostEligible(p) == ~p.stickied /\ p.num_comments > 0

CommentEligible_ScoreGe3(p, c) ==
    /\ c.has_body
    /\ c.score >= 3
    /\ c.body_len >= 50
    /\ is_valid_qa(p.title_len, p.title_question, p.selftext_marked,
                   c.body_len, c.body_marked)

\* lines 202-205: the condition under which a comment becomes a record
CommentEligible(p, c) ==
    /\ c.has_body
    /\ c.score > 3
    /\ c.body_len >= 50
    /\ is_valid_qa(p.title_len, p.title_question, p.selftext_marked,
                   c.body_len, c.body_marked)

\* extract_qa_pair: "question_id": f"{post.id}_{comment.id}"
question_id(p, k) == <<p.id, k>>

\* qa_collection.count_documents({'question_id': qid})
count_documents(coll, qid) == coll[qid]

insert_one_NoIndex(coll, qid, unique) ==
    [ok |-> TRUE, coll |-> [coll EXCEPT ![qid] = @ + 1]]

\* qa_collection.insert_one(qa_pair): DuplicateKeyError when the unique index
\* of _setup_indexes exists and the key is stored already
insert_one(coll, qid, unique) ==
    IF unique /\ coll[qid] > 0
    THEN [ok |-> FALSE, coll |-> coll]
    ELSE [ok |-> TRUE, coll |-> [coll EXCEPT ![qid] = @ + 1]]

Faults == {"none", "count", "insert"}

SaveQA_NoPreCheck(coll, qid, unique, fault) ==
    IF fault = "count" THEN [status |-> "count_error", coll |-> coll]
    ELSE IF fault = "insert" THEN [status |-> "insert_error", coll |-> coll]
    ELSE LET r == insert_one(coll, qid, unique)
         IN  [status |-> IF r.ok THEN "inserted" ELSE "insert_error", coll |-> r.coll]

\* lines 211-217: the save attempt of one record; fault is the storage call
\* that raises (a network or server error), if any
SaveQA(coll, qid, unique, fault) ==
    IF fault = "count" THEN [status |-> "count_error", coll |-> coll]
    ELSE IF count_documents(coll, qid) = 0
         THEN IF fault = "insert" THEN [status |-> "insert_error", coll |-> coll]
              ELSE LET r == insert_one(coll, qid, unique)
                   IN  [status |-> IF r.ok THEN "inserted" ELSE "insert_error",
                        coll |-> r.coll]
         ELSE [status |-> "duplicate", coll |-> coll]

SaveErrors == {"count_error", "insert_error"}

\* line 235: pairs_per_subreddit = target_count // len(self.subreddits)
pairs_per_subreddit == TargetCount \div NumSubreddits

\* lines 189-193: limit=post_limit//3
listing_limit(limit) == limit \div 3

StopReached_Strict(total) == total > TargetCount

\* line 243: if total_pairs >= target_count: break
StopReached(total) == total >= TargetCount

scrape_subreddit_result_DropOnError(pairs, err) == IF err = "none" THEN pairs ELSE 0

\* lines 225-230: both except clauses fall through to "return qa_pairs"
scrape_subreddit_result(pairs, err) == pairs

----------------------------------------------------------------------------
(* Spec: one run of main() *)

InitOthersMain ==
    /\ cpc = [r \in {1, 2} |-> "off"]
    /\ cqid = [r \in {1, 2} |-> <<1, 1>>]
    /\ csaw = [r \in {1, 2} |-> FALSE]
    /\ cstatus = [r \in {1, 2} |-> "none"]
    /\ cleft = [r \in {1, 2} |-> 0]
    /\ text = <<>> /\ once = <<>> /\ twice = <<>> /\ cstage = "off"
    /\ q_words = 0 /\ a_words = 0 /\ complexity = "off"

InitMainVars ==
    /\ pc = "init_mongo"
    /\ mongo = "unknown"
    /\ reddit = "unknown"
    /\ stages = <<>>
    /\ exported = FALSE
    /\ total_pairs = 0
    /\ subIdx = 0
    /\ post_limit = 0
    /\ category = 0
    /\ yielded = 0
    /\ cat_sleeps = 0
    /\ sleeps5 = 0
    /\ post = NoPost
    /\ cidx = 0
    /\ comment = NoComment
    /\ qa_pairs = 0
    /\ lastSave = "none"
    /\ forumError = "none"

\* the collection outlives runs: it is empty or holds a record of an earlier run
Init ==
    /\ InitMainVars
    /\ collection \in {EmptyCollection, [EmptyCollection EXCEPT ![<<1, 1>>] = 1]}
    /\ uniqueIndex = FALSE
    /\ InitOthersMain

others == <<concVars, cleanVars, cxVars>>

\* __init__, lines 27-36
InitMongo ==
    /\ pc = "init_mongo"
    /\ \E ok \in BOOLEAN :
        /\ mongo' = IF ok THEN "ok" ELSE "failed"
        /\ pc' = IF ok THEN "init_reddit" ELSE "aborted"
    /\ UNCHANGED <<reddit, stages, exported, total_pairs, subIdx, post_limit, category,
                   yielded, cat_sleeps, sleeps5, post, cidx, comment, qa_pairs,
                   lastSave, forumError, storeVars, others>>

InitReddit_Swallow ==
    /\ pc = "init_reddit"
    /\ \E ok \in BOOLEAN :
        /\ reddit' = IF ok THEN "ok" ELSE "failed"
        /\ pc' = "setup_indexes"
    /\ UNCHANGED <<mongo, stages, exported, total_pairs, subIdx, post_limit, category,
                   yielded, cat_sleeps, sleeps5, post, cidx, comment, qa_pairs,
                   lastSave, forumError, storeVars, others>>

\* __init__, lines 38-48
InitReddit ==
    /\ pc = "init_reddit"
    /\ \E ok \in BOOLEAN :
        /\ reddit' = IF ok THEN "ok" ELSE "failed"
        /\ pc' = IF ok THEN "setup_indexes" ELSE "aborted"
    /\ UNCHANGED <<mongo, stages, exported, total_pairs, subIdx, post_limit, category,
                   yielded, cat_sleeps, sleeps5, post, cidx, comment, qa_pairs,
                   lastSave, forumError, storeVars, others>>

\* _setup_indexes, lines 57-64: a failure of create_index is logged, not raised
SetupIndexes ==
    /\ pc = "setup_indexes"
    /\ \E ok \in BOOLEAN : uniqueIndex' = (uniqueIndex \/ ok)
    /\ stages' = Append(stages, "connect")
    /\ pc' = "scrape_all"
    /\ UNCHANGED <<mongo, reddit, exported, total_pairs, subIdx, post_limit, category,
                   yielded, cat_sleeps, sleeps5, post, cidx, comment, qa_pairs,
                   lastSave, forumError, collection, others>>

\* scrape_all_subreddits, lines 234-235
ScrapeAll ==
    /\ pc = "scrape_all"
    /\ stages' = Append(stages, "scrape")
    /\ total_pairs' = 0
    /\ subIdx' = 1
    /\ pc' = "forum_loop"
    /\ UNCHANGED <<mongo, reddit, exported, post_limit, category, yielded, cat_sleeps,
                   sleeps5, post, cidx, comment, qa_pairs, lastSave, forumError,
                   storeVars, others>>

\* line 237-238 and 180-187: the next forum is handed to scrape_subreddit
ForumStart ==
    /\ pc = "forum_loop"
    /\ subIdx <= NumSubreddits
    /\ post_limit' = pairs_per_subreddit
    /\ qa_pairs' = 0
    /\ forumError' = "none"
    /\ category' = 1
    /\ yielded' = 0
    /\ cat_sleeps' = 0
    /\ lastSave' = "none"
    /\ pc' = "listing"
    /\ UNCHANGED <<mongo, reddit, stages, exported, total_pairs, subIdx, sleeps5, post,
                   cidx, comment, storeVars, others>>

\* line 237 and 249: the forum list is exhausted
ForumsExhausted ==
    /\ pc = "forum_loop"
    /\ subIdx > NumSubreddits
    /\ pc' = "export"
    /\ UNCHANGED <<mongo, reddit, stages, exported, total_pairs, subIdx, post_limit,
                   category, yielded, cat_sleeps, sleeps5, post, cidx, comment, qa_pairs,
                   lastSave, forumError, storeVars, others>>

\* line 195: the listing yields its next post
YieldPost ==
    /\ pc = "listing"
    /\ yielded < listing_limit(post_limit)
    /\ \E p \in Posts : post' = p
    /\ yielded' = yielded + 1
    /\ pc' = "post"
    /\ UNCHANGED <<mongo, reddit, stages, exported, total_pairs, subIdx, post_limit,
                   category, cat_sleeps, sleeps5, cidx, comment, qa_pairs, lastSave,
                   forumError, storeVars, others>>

\* lines 187 and 195: the listing is over (limit reached or no more posts)
ListingEnd ==
    /\ pc = "listing"
    /\ IF category < Len(Categories)
       THEN /\ category' = category + 1
            /\ yielded' = 0
            /\ cat_sleeps' = 0
            /\ pc' = "listing"
       ELSE /\ pc' = "forum_ret"
            /\ UNCHANGED <<category, yielded, cat_sleeps>>
    /\ UNCHANGED <<mongo, reddit, stages, exported, total_pairs, subIdx, post_limit,
                   sleeps5, post, cidx, comment, qa_pairs, lastSave, forumError,
                   storeVars, others>>

\* lines 195 and 225-228: fetching the listing raises
ListingRaise ==
    /\ pc = "listing"
    /\ yielded < listing_limit(post_limit)
    /\ \E e \in {"praw", "unexpected"} : forumError' = e
    /\ pc' = "forum_ret"
    /\ UNCHANGED <<mongo, reddit, stages, exported, total_pairs, subIdx, post_limit,
                   category, yielded, cat_sleeps, sleeps5, post, cidx, comment, qa_pairs,
                   lastSave, storeVars, others>>

SkipPost_NoSleep ==
    /\ pc = "post"
    /\ ~PostEligible(post)
    /\ post' = NoPost
    /\ pc' = "listing"
    /\ UNCHANGED <<mongo, reddit, stages, exported, total_pairs, subIdx, post_limit,
                   category, yielded, cat_sleeps, sleeps5, cidx, comment, qa_pairs,
                   lastSave, forumError, storeVars, others>>

\* line 196, condition false: the post is skipped
SkipPost ==
    /\ pc = "post"
    /\ ~PostEligible(post)
    /\ pc' = "sleep2"
    /\ UNCHANGED <<mongo, reddit, stages, exported, total_pairs, subIdx, post_limit,
                   category, yielded, cat_sleeps, sleeps5, post, cidx, comment, qa_pairs,
                   lastSave, forumError, storeVars, others>>

\* lines 196-199: the comments of the post are loaded; the request may raise
LoadComments ==
    /\ pc = "post"
    /\ PostEligible(post)
    /\ \E e \in {"none", "praw", "unexpected"} :
        /\ forumError' = e
        /\ pc' = IF e = "none" THEN "comments" ELSE "forum_ret"
    /\ cidx' = 0
    /\ UNCHANGED <<mongo, reddit, stages, exported, total_pairs, subIdx, post_limit,
                   category, yielded, cat_sleeps, sleeps5, post, comment, qa_pairs,
                   lastSave, storeVars, others>>

\* line 201: the next comment of the post
NextComment ==
    /\ pc = "comments"
    /\ cidx < MaxComments
    /\ \E c \in Comments : comment' = c
    /\ cidx' = cidx + 1
    /\ lastSave' = "none"
    /\ pc' = "comment"
    /\ UNCHANGED <<mongo, reddit, stages, exported, total_pairs, subIdx, post_limit,
                   category, yielded, cat_sleeps, sleeps5, post, qa_pairs, forumError,
                   storeVars, others>>

\* line 201: the post has no more comments
CommentsEnd ==
    /\ pc = "comments"
    /\ lastSave' = "none"
    /\ pc' = "sleep2"
    /\ UNCHANGED <<mongo, reddit, stages, exported, total_pairs, subIdx, post_limit,
                   category, yielded, cat_sleeps, sleeps5, post, cidx, comment, qa_pairs,
                   forumError, storeVars, others>>

\* lines 202-205, condition false
RejectComment ==
    /\ pc = "comment"
    /\ ~CommentEligible(post, comment)
    /\ comment' = NoComment
    /\ pc' = "comments"
    /\ UNCHANGED <<mongo, reddit, stages, exported, total_pairs, subIdx, post_limit,
                   category, yielded, cat_sleeps, sleeps5, post, cidx, qa_pairs,
                   lastSave, forumError, storeVars, others>>

CollectComment_SaveFirst ==
    /\ pc = "comment"
    /\ CommentEligible(post, comment)
    /\ \E fault \in Faults :
        LET r == SaveQA(collection, question_id(post, cidx), uniqueIndex, fault)
        IN  /\ collection' = r.coll
            /\ lastSave' = r.status
            /\ qa_pairs' = IF r.status \in SaveErrors THEN qa_pairs ELSE qa_pairs + 1
    /\ comment' = NoComment
    /\ pc' = "comments"
    /\ UNCHANGED <<mongo, reddit, stages, exported, total_pairs, subIdx, post_limit,
                   category, yielded, cat_sleeps, sleeps5, post, cidx, forumError,
                   uniqueIndex, others>>

\* lines 207-220: the record is built and appended, then saved; an exception
\* of the save is caught at line 216
CollectComment ==
    /\ pc = "comment"
    /\ CommentEligible(post, comment)
    /\ qa_pairs' = qa_pairs + 1
    /\ \E fault \in Faults :
        LET r == SaveQA(collection, question_id(post, cidx), uniqueIndex, fault)
        IN  /\ collection' = r.coll
            /\ lastSave' = r.status
    /\ comment' = NoComment
    /\ pc' = "comments"
    /\ UNCHANGED <<mongo, reddit, stages, exported, total_pairs, subIdx, post_limit,
                   category, yielded, cat_sleeps, sleeps5, post, cidx, forumError,
                   uniqueIndex, others>>

\* lines 222-223: time.sleep(2), the last statement of the body of "for post in posts"
Sleep2 ==
    /\ pc = "sleep2"
    /\ cat_sleeps' = cat_sleeps + 1
    /\ post' = NoPost
    /\ pc' = "listing"
    /\ UNCHANGED <<mongo, reddit, stages, exported, total_pairs, subIdx, post_limit,
                   category, yielded, sleeps5, cidx, comment, qa_pairs, lastSave,
                   forumError, storeVars, others>>

\* lines 225-230 and 238-244: scrape_subreddit returns, the total is updated
\* and compared with the target
ForumReturn ==
    /\ pc = "forum_ret"
    /\ total_pairs' = total_pairs + scrape_subreddit_result(qa_pairs, forumError)
    /\ pc' = IF StopReached(total_pairs') THEN "export" ELSE "sleep5"
    /\ post' = NoPost
    /\ UNCHANGED <<mongo, reddit, stages, exported, subIdx, post_limit, category, yielded,
                   cat_sleeps, sleeps5, cidx, comment, qa_pairs, lastSave, forumError,
                   storeVars, others>>

\* lines 246-247 and the next iteration of line 237
Sleep5 ==
    /\ pc = "sleep5"
    /\ sleeps5' = sleeps5 + 1
    /\ subIdx' = subIdx + 1
    /\ pc' = "forum_loop"
    /\ UNCHANGED <<mongo, reddit, stages, exported, total_pairs, post_limit, category,
                   yielded, cat_sleeps, post, cidx, comment, qa_pairs, lastSave,
                   forumError, storeVars, others>>

\* export_to_json, lines 251-259, then line 272
Export ==
    /\ pc = "export"
    /\ stages' = Append(stages, "export")
    /\ \E ok \in BOOLEAN : exported' = ok
    /\ pc' = "done"
    /\ UNCHANGED <<mongo, reddit, total_pairs, subIdx, post_limit, category, yielded,
                   cat_sleeps, sleeps5, post, cidx, comment, qa_pairs, lastSave,
                   forumError, storeVars, others>>

Next ==
    \/ InitMongo
    \/ InitReddit
    \/ SetupIndexes
    \/ ScrapeAll
    \/ ForumStart
    \/ ForumsExhausted
    \/ YieldPost
    \/ ListingEnd
    \/ ListingRaise
    \/ SkipPost
    \/ LoadComments
    \/ NextComment
    \/ CommentsEnd
    \/ RejectComment
    \/ CollectComment
    \/ Sleep2
    \/ ForumReturn
    \/ Sleep5
    \/ Export

Spec == Init /\ [][Next]_vars

----------------------------------------------------------------------------
(* SpecConc: two runs of the driver save records into the same collection. *)
(* Each run executes lines 212-213 as two storage calls; the calls of the  *)
(* two runs interleave.                                                     *)

Runs == {1, 2}

InitMainOff ==
    /\ pc = "off"
    /\ mongo = "ok"
    /\ reddit = "ok"
    /\ stages = <<>>
    /\ exported = FALSE
    /\ total_pairs = 0
    /\ subIdx = 0
    /\ post_limit = 0
    /\ category = 0
    /\ yielded = 0
    /\ cat_sleeps = 0
    /\ sleeps5 = 0
    /\ post = NoPost
    /\ cidx = 0
    /\ comment = NoComment
    /\ qa_pairs = 0
    /\ lastSave = "none"
    /\ forumError = "none"

\* uniqueIndex: whether create_index of _setup_indexes succeeded (lines 59-64)
InitConc ==
    /\ InitMainOff
    /\ collection = EmptyCollection
    /\ uniqueIndex \in BOOLEAN
    /\ cpc = [r \in Runs |-> "idle"]
    /\ cqid = [r \in Runs |-> <<1, 1>>]
    /\ csaw = [r \in Runs |-> FALSE]
    /\ cstatus = [r \in Runs |-> "none"]
    /\ cleft = [r \in Runs |-> MaxAttempts]
    /\ text = <<>> /\ once = <<>> /\ twice = <<>> /\ cstage = "off"
    /\ q_words = 0 /\ a_words = 0 /\ complexity = "off"

\* line 212: count_documents({'question_id': ...}) == 0
CCheck(r) ==
    /\ cpc[r] = "idle"
    /\ cleft[r] > 0
    /\ \E q \in QIds :
        /\ cqid' = [cqid EXCEPT ![r] = q]
        /\ csaw' = [csaw EXCEPT ![r] = (count_documents(collection, q) = 0)]
    /\ cstatus' = [cstatus EXCEPT ![r] = "none"]
    /\ cpc' = [cpc EXCEPT ![r] = "checked"]
    /\ UNCHANGED <<cleft, mainVars, storeVars, cleanVars, cxVars>>

\* lines 213-217: insert_one when the check saw no document, else the
\* duplicate is logged; DuplicateKeyError is caught at line 216
CSave(r) ==
    /\ cpc[r] = "checked"
    /\ IF csaw[r]
       THEN LET res == insert_one(collection, cqid[r], uniqueIndex)
            IN  /\ collection' = res.coll
                /\ cstatus' = [cstatus EXCEPT ![r] =
                                  IF res.ok THEN "inserted" ELSE "insert_error"]
       ELSE /\ collection' = collection
            /\ cstatus' = [cstatus EXCEPT ![r] = "duplicate"]
    /\ cpc' = [cpc EXCEPT ![r] = "idle"]
    /\ cleft' = [cleft EXCEPT ![r] = @ - 1]
    /\ UNCHANGED <<cqid, csaw, uniqueIndex, mainVars, cleanVars, cxVars>>

NextConc == \E r \in Runs : CCheck(r) \/ CSave(r)

SpecConc == InitConc /\ [][NextConc]_vars

----------------------------------------------------------------------------
(* SpecClean: clean_text on sequences of one-character strings *)

Http == <<"h", "t", "t", "p">>
Colon2 == <<":", "/", "/">>

Tokens ==
    {Http \o Colon2, Http \o <<"s">> \o Colon2, <<"a">>, <<" ">>, <<"\n">>, <<"@">>,
     <<"[">>, <<"]", "(">>, <<")">>}

RECURSIVE Flatten(_)
Flatten(ts) == IF ts = <<>> THEN <<>> ELSE Head(ts) \o Flatten(Tail(ts))

\* \s
IsSpace(ch) == ch \in {" ", "\n"}

\* [\w\s.,!?-]
Kept(ch) == ch \in {"a", "h", "t", "p", "s", " ", "\n", ".", ",", "!", "?", "-"}

StartsWith(s, i, pat) ==
    /\ i + Len(pat) - 1 <= Len(s)
    /\ SubSeq(s, i, i + Len(pat) - 1) = pat

\* index of the last character of the run of \S (or of \s) starting at i
RECURSIVE RunEnd(_, _, _)
RunEnd(s, i, space) ==
    IF i + 1 <= Len(s) /\ IsSpace(s[i + 1]) = space THEN RunEnd(s, i + 1, space) ELSE i

\* length of the match of http[s]?:// at i, 0 when there is none
UrlPrefix(s, i) ==
    IF StartsWith(s, i, Http \o <<"s">> \o Colon2) THEN 8
    ELSE IF StartsWith(s, i, Http \o Colon2) THEN 7
    ELSE 0

\* line 72: re.sub(r'http[s]?://\S+', '', text)
RECURSIVE RemoveUrls(_, _)
RemoveUrls(s, i) ==
    IF i > Len(s) THEN <<>>
    ELSE LET n == UrlPrefix(s, i)
         IN  IF n > 0 /\ i + n <= Len(s) /\ ~IsSpace(s[i + n])
             THEN RemoveUrls(s, RunEnd(s, i + n, FALSE) + 1)
             ELSE <<s[i]>> \o RemoveUrls(s, i + 1)

\* the first ")" at or after k with no newline before it, 0 when there is none
RECURSIVE FindClose(_, _)
FindClose(s, k) ==
    IF k > Len(s) THEN 0
    ELSE IF s[k] = ")" THEN k
    ELSE IF s[k] = "\n" THEN 0
    ELSE FindClose(s, k + 1)

\* end of the match of \[.*?\]\(.*?\) whose "[" precedes j, trying "](" at j
\* and then further right; 0 when there is none
RECURSIVE LinkEnd(_, _)
LinkEnd(s, j) ==
    IF j + 1 > Len(s) THEN 0
    ELSE IF s[j] = "]" /\ s[j + 1] = "(" /\ FindClose(s, j + 2) > 0
         THEN FindClose(s, j + 2)
    ELSE IF s[j] = "\n" THEN 0
    ELSE LinkEnd(s, j + 1)

\* line 74: re.sub(r'\[.*?\]\(.*?\)', '', text)
RECURSIVE RemoveLinks(_, _)
RemoveLinks(s, i) ==
    IF i > Len(s) THEN <<>>
    ELSE IF s[i] = "[" /\ LinkEnd(s, i + 1) > 0
         THEN RemoveLinks(s, LinkEnd(s, i + 1) + 1)
    ELSE <<s[i]>> \o RemoveLinks(s, i + 1)

\* line 76: re.sub(r'\s+', ' ', text)
RECURSIVE CollapseSpaces(_, _)
CollapseSpaces(s, i) ==
    IF i > Len(s) THEN <<>>
    ELSE IF IsSpace(s[i]) THEN <<" ">> \o CollapseSpaces(s, RunEnd(s, i, TRUE) + 1)
    ELSE <<s[i]>> \o CollapseSpaces(s, i + 1)

\* line 78: re.sub(r'[^\w\s.,!?-]', '', text)
RemoveSpecial(s) == SelectSeq(s, Kept)

\* line 79: text.strip()
RECURSIVE Strip(_)
Strip(s) ==
    IF s = <<>> THEN s
    ELSE IF IsSpace(Head(s)) THEN Strip(Tail(s))
    ELSE IF IsSpace(s[Len(s)]) THEN Strip(SubSeq(s, 1, Len(s) - 1))
    ELSE s

\* clean_text, lines 66-79
clean_text(s) ==
    IF s = <<>> THEN <<>>
    ELSE Strip(RemoveSpecial(CollapseSpaces(RemoveLinks(RemoveUrls(s, 1), 1), 1)))

InitClean ==
    /\ InitMainOff
    /\ collection = EmptyCollection
    /\ uniqueIndex = FALSE
    /\ cpc = [r \in Runs |-> "off"]
    /\ cqid = [r \in Runs |-> <<1, 1>>]
    /\ csaw = [r \in Runs |-> FALSE]
    /\ cstatus = [r \in Runs |-> "none"]
    /\ cleft = [r \in Runs |-> 0]
    /\ text \in {Flatten(ts) : ts \in UNION {[1..n -> Tokens] : n \in 0..MaxTokens}}
    /\ once = <<>> /\ twice = <<>> /\ cstage = "input"
    /\ q_words = 0 /\ a_words = 0 /\ complexity = "off"

CleanOnce ==
    /\ cstage = "input"
    /\ once' = clean_text(text)
    /\ cstage' = "once"
    /\ UNCHANGED <<text, twice, mainVars, storeVars, concVars, cxVars>>

CleanTwice ==
    /\ cstage = "once"
    /\ twice' = clean_text(once)
    /\ cstage' = "twice"
    /\ UNCHANGED <<text, once, mainVars, storeVars, concVars, cxVars>>

NextClean == CleanOnce \/ CleanTwice

SpecClean == InitClean /\ [][NextClean]_vars

----------------------------------------------------------------------------
(* SpecCx: assess_complexity; q and a are len(question_text.split()) and   *)
(* len(answer_text.split())                                                *)

assess_complexity_Inclusive(q, a) ==
    IF q <= 30 /\ a <= 100 THEN "Low"
    ELSE IF q <= 50 /\ a <= 200 THEN "Medium"
    ELSE "High"

\* lines 161-168
assess_complexity(q, a) ==
    IF q < 30 /\ a < 100 THEN "Low"
    ELSE IF q < 50 /\ a < 200 THEN "Medium"
    ELSE "High"

InitCx ==
    /\ InitMainOff
    /\ collection = EmptyCollection
    /\ uniqueIndex = FALSE
    /\ cpc = [r \in Runs |-> "off"]
    /\ cqid = [r \in Runs |-> <<1, 1>>]
    /\ csaw = [r \in Runs |-> FALSE]
    /\ cstatus = [r \in Runs |-> "none"]
    /\ cleft = [r \in Runs |-> 0]
    /\ text = <<>> /\ once = <<>> /\ twice = <<>> /\ cstage = "off"
    /\ q_words \in 0..MaxQuestionWords
    /\ a_words \in 0..MaxAnswerWords
    /\ complexity = "unset"

Assess ==
    /\ complexity = "unset"
    /\ complexity' = assess_complexity(q_words, a_words)
    /\ UNCHANGED <<q_words, a_words, mainVars, storeVars, concVars, cleanVars>>

NextCx == Assess

SpecCx == InitCx /\ [][NextCx]_vars

----------------------------------------------------------------------------
(* Claims *)

InForum == {"listing", "post", "comments", "comment", "sleep2", "forum_ret"}

\* C1: the collection never holds two records with one question_id, and a
\* save attempt for a question_id that is stored already leaves the
\* collection unchanged, is logged as a duplicate (unless the existence check
\* itself fails) and the iteration goes on with the comments of the post.
C1_IdempotentInsert ==
    /\ [](\A q \in QIds : collection[q] <= 1)
    /\ [][(/\ pc = "comment"
           /\ lastSave' # "none"
           /\ collection[question_id(post, cidx)] > 0)
          => (/\ collection' = collection
              /\ lastSave' \in {"duplicate", "count_error"}
              /\ pc' = "comments"
              /\ forumError' = "none")]_vars

C1_Witness ==
    /\ pc = "comments"
    /\ lastSave = "duplicate"
    /\ collection[question_id(post, cidx)] = 1

\* C2 as stated: after a forum ended with an exception and another forum is
\* configured, the driver goes on to that forum.
C2_Original ==
    [][(pc = "forum_ret" /\ forumError # "none" /\ subIdx < NumSubreddits)
       => pc' = "sleep5"]_vars

\* C2 amended: an exception inside scrape_subreddit ends that forum only; the
\* records collected before it are returned and counted and the stored ones
\* stay stored; the driver then goes on to the next forum unless the running
\* total has reached target_count.
C2_ForumFailure ==
    /\ [][(forumError = "none" /\ forumError' # "none")
          => (/\ pc' = "forum_ret"
              /\ qa_pairs' = qa_pairs
              /\ collection' = collection)]_vars
    /\ [][(pc = "forum_ret" /\ forumError # "none")
          => (/\ total_pairs' = total_pairs + qa_pairs
              /\ collection' = collection
              /\ pc' = IF total_pairs' >= TargetCount THEN "export" ELSE "sleep5")]_vars
    /\ [][(pc = "sleep5" /\ forumError # "none")
          => (pc' = "forum_loop" /\ subIdx' = subIdx + 1)]_vars
    /\ [][(pc = "forum_loop" /\ subIdx <= NumSubreddits)
          => (pc' = "listing" /\ qa_pairs' = 0)]_vars

C2_Witness ==
    /\ pc = "sleep5"
    /\ forumError # "none"
    /\ qa_pairs > 0
    /\ total_pairs = qa_pairs
    /\ \E q \in QIds : collection[q] = 1

C4_Original ==
    [][(pc = "comment" /\ lastSave' \in SaveErrors)
       => (/\ collection' = collection
           /\ qa_pairs' = qa_pairs
           /\ pc' = "comments")]_vars

\* C4 amended: a record whose save raises is not stored, but it stays in the
\* forum's collected result (it was appended before the save) and is
\* counted; the iteration continues with the next comment and the forum's
\* scrape is not ended.
C4_RecordError ==
    [][(pc = "comment" /\ lastSave' \in SaveErrors)
       => (/\ collection' = collection
           /\ qa_pairs' = qa_pairs + 1
           /\ pc' = "comments"
           /\ forumError' = "none")]_vars

C4_Witness ==
    /\ pc = "comments"
    /\ lastSave \in SaveErrors
    /\ qa_pairs > 0
    /\ cidx < MaxComments

\* C5: a record is collected or stored only from a post that is not pinned
\* and has num_comments > 0 and from a comment with a body, score > 3, body
\* length >= 50 that is_valid_qa accepts.
C5_AdmissionGate ==
    [][(qa_pairs' > qa_pairs \/ collection' # collection)
       => (/\ pc = "comment"
           /\ ~post.stickied
           /\ post.num_comments > 0
           /\ comment.has_body
           /\ comment.score > 3
           /\ comment.body_len >= 50
           /\ is_valid_qa(post.title_len, post.title_question, post.selftext_marked,
                          comment.body_len, comment.body_marked))]_vars

C5_Witness ==
    /\ pc = "comments"
    /\ lastSave = "inserted"
    /\ cidx = 2
    /\ qa_pairs = 1
    /\ category = 1
    /\ subIdx = 1

\* C6: with the unique index in place the collection holds at most one record
\* per question_id under every interleaving of two runs, and exactly one for
\* every question_id a run finished an attempt for (the run that loses the
\* race gets an insert error, which is caught).
C6_ConcurrentRuns ==
    uniqueIndex =>
        /\ \A q \in QIds : collection[q] <= 1
        /\ \A r \in Runs :
            (cpc[r] = "idle" /\ cstatus[r] # "none") => collection[cqid[r]] = 1

C6_Witness ==
    /\ uniqueIndex
    /\ cqid[1] = cqid[2]
    /\ cpc[1] = "idle" /\ cpc[2] = "idle"
    /\ cstatus[1] = "inserted"
    /\ cstatus[2] = "insert_error"
    /\ collection[cqid[1]] = 1

\* C6, second half: without the unique index a double insert is reachable
\* (this predicate is reachable under SpecConc).
C6_DoubleInsert ==
    /\ ~uniqueIndex
    /\ \E q \in QIds : collection[q] = 2

\* C7: clean_text(clean_text(x)) = clean_text(x) for every text x.
C7_Idempotent == cstage = "twice" => twice = once

C9_Complexity ==
    complexity # "unset" =>
        LET low == q_words < 30 /\ a_words < 100
            medium == ~low /\ q_words < 50 /\ a_words < 200
        IN  /\ complexity \in {"Low", "Medium", "High"}
            /\ (complexity = "Low") <=> low
            /\ (complexity = "Medium") <=> medium
            /\ (complexity = "High") <=> (~low /\ ~medium)
            /\ (q_words = 29 /\ a_words = 99) => complexity = "Low"
            /\ (q_words = 30 /\ a_words = 100) => complexity = "Medium"

C9_Witness == q_words = 30 /\ a_words = 100 /\ complexity = "Medium"

\* C10: when the storage connection or the API client construction fails the
\* run is aborted: nothing is scraped, inserted or exported; otherwise the
\* stages are entered in the order connect, scrape, export.
C10_FatalSetup ==
    /\ []((mongo = "failed" \/ reddit = "failed")
          => (/\ pc = "aborted"
              /\ stages = <<>>
              /\ subIdx = 0
              /\ total_pairs = 0
              /\ ~exported))
    /\ [][(mongo = "failed" \/ reddit = "failed") => collection' = collection]_vars
    /\ [](\E n \in 0..3 : stages = SubSeq(<<"connect", "scrape", "export">>, 1, n))
    /\ [](pc = "done" => stages = <<"connect", "scrape", "export">>)

C10_Witness == reddit = "failed" /\ mongo = "ok" /\ pc = "aborted"
====
